---- MODULE Spec2Model ----
(***************************************************************************)
(* A model of package lencode (src/lencode.go, lines 1-221): an Encoder    *)
(* that frames messages as [separator][4-byte length][payload] on an       *)
(* io.Writer, and a Decoder that reads such frames from an io.Reader.      *)
(*                                                                         *)
(* Scaling.  TLC's integers are 32 bits wide, so math.MaxUint32 cannot be  *)
(* written down.  A byte is therefore modelled as a digit in 0..ByteBase-1 *)
(* (ByteBase is 256 in Go); the length field keeps its 4 bytes, so the     *)
(* largest length it holds is ByteBase^4 - 1, which plays math.MaxUint32.  *)
(* Go's int is taken to be 64 bits wide (int(l) at line 219 never wraps).  *)
(*                                                                         *)
(* The Encoder's sink and the Decoder's source are the two ends of one     *)
(* byte pipe, as the bytes.Buffer of src/lencode_test.go is; the           *)
(* environment may make a write to the sink or a read of the source fail.  *)
(***************************************************************************)
EXTENDS Integers, Sequences, FiniteSets, TLC

VARIABLES
    enc,      \* the Encoder: [separator, lenBuf, err, byteOrder]
    w,        \* every byte the sink has accepted from the Encoder, in order
    dec,      \* the Decoder: [separator, prefixBuf, err, byteOrder, pendingPrefix, pendingLen]
    stream,   \* every byte ever put into the Decoder's source, in order
    pos,      \* how many bytes of stream the source has handed out
    eRet,     \* the last Encode call: its error and the writes it issued
    dRet,     \* the last Decoder call: entry point, error, returned buffer / length
    sent,     \* history: the payloads of the Encode calls that returned nil
    got       \* history: the payloads delivered by Decode/DecodeInto calls that returned nil

vars == <<enc, w, dec, stream, pos, eRet, dRet, sent, got>>

----------------------------------------------------------------------------
(* Bounds of the model *)

\* number of distinct byte values (256 in Go)
ByteBase == 2
\* an Encode call starts only while the sink holds fewer bytes than this
MaxSink == 11
\* longest caller-supplied buffer handed to DecodeInto
MaxBuf == 3

----------------------------------------------------------------------------
(* Bytes, integers, errors *)

\* the width of the length field
LenWidth == 4

Byte == 0 .. (ByteBase - 1)

\* the largest value the length field holds
MaxUint32 == ByteBase ^ LenWidth - 1

Min(a, b) == IF a < b THEN a ELSE b

\* Go's uint32(x) conversion
U32(x) == x % (MaxUint32 + 1)

BigEndian == "BigEndian"
LittleEndian == "LittleEndian"

\* PutUint32 gone wrong: the byte order is ignored, big-endian always
PutUint32_BigOnly(byteOrder, v) ==
    [i \in 1 .. LenWidth |-> (v \div (ByteBase ^ (LenWidth - i))) % ByteBase]

\* binary.ByteOrder.PutUint32: the 4 bytes of v in the given order
PutUint32(byteOrder, v) ==
    [i \in 1 .. LenWidth |->
        IF byteOrder = BigEndian
        THEN (v \div (ByteBase ^ (LenWidth - i))) % ByteBase
        ELSE (v \div (ByteBase ^ (i - 1))) % ByteBase]

\* binary.ByteOrder.Uint32: the value of the 4 bytes b in the given order
Uint32(byteOrder, b) ==
    IF byteOrder = BigEndian
    THEN b[1] * ByteBase ^ 3 + b[2] * ByteBase ^ 2 + b[3] * ByteBase + b[4]
    ELSE b[4] * ByteBase ^ 3 + b[3] * ByteBase ^ 2 + b[2] * ByteBase + b[1]

nil == "nil"
EOF == "EOF"
ErrUnexpectedEOF == "unexpected EOF"
separatorMismatchErr == "Separator mismatch"
messageTooLongErr == "Message too long to encode length in 4 bytes"
bufferNotLargeEnoughErr == "Buffer not large enough for next message"
\* an error of the underlying io.Writer / io.Reader
WriteErr == "write error"
ReadErr == "read error"
\* not an error value: the call panicked (slice bounds out of range)
Panic == "panic"

\* a Go byte slice used as a separator: nil, or a (possibly empty) slice
NilSlice == [isNil |-> TRUE, bytes |-> <<>>]
Slice(s) == [isNil |-> FALSE, bytes |-> s]

\* 'l' 'e' 'n' 'c', each byte reduced to the model's byte range
defaultSeparator == Slice(<<108 % ByteBase, 101 % ByteBase, 110 % ByteBase, 99 % ByteBase>>)

\* n copies of byte x
Run(x, n) == [i \in 1 .. n |-> x]

\* Sequencing of the steps of a call: v is evaluated once and handed to F.
Then(v, F(_)) == CHOOSE r \in {F(x) : x \in {v}} : TRUE

----------------------------------------------------------------------------
(* Inputs *)

\* the payloads handed to Encode: the empty one, a short one, and long ones
\* at the length whose big-endian encoding spells the default separator and
\* at the two edges of the length field
Payloads ==
    {<<>>, <<0, 1>>,
     Run(1, Uint32(BigEndian, defaultSeparator.bytes)),
     Run(1, MaxUint32),
     Run(1, MaxUint32 + 1)}

\* how many bytes of a write a failing sink takes before it fails
Partials == {0, 1}

\* the separators given to SeparatorOpt
SeparatorOpts == {NilSlice}

ByteOrders == {BigEndian, LittleEndian}

\* an option list: a SeparatorOpt or none, an EndianOpt or none
OptLists ==
    [sep : {[given |-> FALSE, s |-> NilSlice]} \cup {[given |-> TRUE, s |-> s] : s \in SeparatorOpts},
     endian : {[given |-> FALSE, o |-> BigEndian]} \cup {[given |-> TRUE, o |-> o] : o \in ByteOrders}]

----------------------------------------------------------------------------
(* Encoder *)

NewEncoder(opts) ==
    [separator |-> IF opts.sep.given THEN opts.sep.s ELSE defaultSeparator,
     lenBuf    |-> Run(0, LenWidth),
     err       |-> nil,
     byteOrder |-> IF opts.endian.given THEN opts.endian.o ELSE BigEndian]

\* io.Writer.Write on the pipe: the sink takes all of b, or fails having
\* taken at most `part` bytes of it
SinkWrite(sink, b, fails, part) ==
    IF fails
    THEN [sink |-> sink \o SubSeq(b, 1, Min(part, Len(b))), err |-> WriteErr]
    ELSE [sink |-> sink \o b, err |-> nil]

\* write gone wrong: the stored error is not looked at, the write is issued anyway
write_NoErrCheck(st, b) ==
    Then(SinkWrite(st.sink, b, st.failAt = Len(st.log) + 1, st.part), LAMBDA res :
         [st EXCEPT !.sink = res.sink,
                    !.log = Append(@, b),
                    !.e.err = IF res.err # nil THEN res.err ELSE @])

\* Encoder.write on a call state st = [e, sink, log, failAt, part]:
\* log lists the writes issued so far in this Encode call, and the
\* failAt-th of them is the one the sink fails (0: none)
write(st, b) ==
    IF st.e.err # nil THEN st
    ELSE Then(SinkWrite(st.sink, b, st.failAt = Len(st.log) + 1, st.part), LAMBDA res :
         [st EXCEPT !.sink = res.sink,
                    !.log = Append(@, b),
                    !.e.err = res.err])

\* Encode gone wrong: the length is written before the separator
Encode_LengthFirst(st, msg) ==
    IF st.e.err # nil THEN st
    ELSE IF Len(msg) > MaxUint32
    THEN [st EXCEPT !.e.err = messageTooLongErr]
    ELSE Then([st EXCEPT !.e.lenBuf = PutUint32(st.e.byteOrder, U32(Len(msg)))], LAMBDA s1 :
         Then(write(s1, s1.e.lenBuf), LAMBDA s2 :
         Then(IF ~s2.e.separator.isNil THEN write(s2, s2.e.separator.bytes) ELSE s2, LAMBDA s3 :
         write(s3, msg))))

\* Encode gone wrong: the stored error is not looked at first
Encode_NoErrCheck(st, msg) ==
    IF Len(msg) > MaxUint32
    THEN [st EXCEPT !.e.err = messageTooLongErr]
    ELSE Then(IF ~st.e.separator.isNil THEN write(st, st.e.separator.bytes) ELSE st, LAMBDA s1 :
         Then([s1 EXCEPT !.e.lenBuf = PutUint32(s1.e.byteOrder, U32(Len(msg)))], LAMBDA s2 :
         Then(write(s2, s2.e.lenBuf), LAMBDA s3 :
         write(s3, msg))))

\* Encode gone wrong: the largest length is rejected too
Encode_OffByOne(st, msg) ==
    IF st.e.err # nil THEN st
    ELSE IF Len(msg) >= MaxUint32
    THEN [st EXCEPT !.e.err = messageTooLongErr]
    ELSE Then(IF ~st.e.separator.isNil THEN write(st, st.e.separator.bytes) ELSE st, LAMBDA s1 :
         Then([s1 EXCEPT !.e.lenBuf = PutUint32(s1.e.byteOrder, U32(Len(msg)))], LAMBDA s2 :
         Then(write(s2, s2.e.lenBuf), LAMBDA s3 :
         write(s3, msg))))

\* Encode gone wrong: the frame is put together and handed to the sink in one write
Encode_OneWrite(st, msg) ==
    IF st.e.err # nil THEN st
    ELSE IF Len(msg) > MaxUint32
    THEN [st EXCEPT !.e.err = messageTooLongErr]
    ELSE Then([st EXCEPT !.e.lenBuf = PutUint32(st.e.byteOrder, U32(Len(msg)))], LAMBDA s1 :
         write(s1, s1.e.separator.bytes \o s1.e.lenBuf \o msg))

\* Encoder.Encode: the call state afterwards; the call returns its e.err
Encode(st, msg) ==
    IF st.e.err # nil THEN st
    ELSE IF Len(msg) > MaxUint32
    THEN [st EXCEPT !.e.err = messageTooLongErr]
    ELSE Then(IF ~st.e.separator.isNil THEN write(st, st.e.separator.bytes) ELSE st, LAMBDA s1 :
         Then([s1 EXCEPT !.e.lenBuf = PutUint32(s1.e.byteOrder, U32(Len(msg)))], LAMBDA s2 :
         Then(write(s2, s2.e.lenBuf), LAMBDA s3 :
         write(s3, msg))))

\* the state an Encode call starts in
EncodeState(failAt, part) ==
    [e |-> enc, sink |-> w, log |-> <<>>, failAt |-> failAt, part |-> part]

----------------------------------------------------------------------------
(* Decoder *)

NewDecoder(opts) ==
    Then(IF opts.sep.given THEN opts.sep.s ELSE defaultSeparator, LAMBDA sep :
        [separator     |-> sep,
         prefixBuf     |-> Run(0, Len(sep.bytes) + LenWidth),
         err           |-> nil,
         byteOrder     |-> IF opts.endian.given THEN opts.endian.o ELSE BigEndian,
         pendingPrefix |-> FALSE,
         pendingLen    |-> 0])

\* what a buffer holds after `data` was read into its front
Filled(old, data) == data \o SubSeq(old, Len(data) + 1, Len(old))

\* ReadFull gone wrong: every short read is reported as io.EOF
ReadFull_EOFOnShort(st, n) ==
    IF n = 0 THEN [st |-> st, data |-> <<>>, err |-> nil]
    ELSE IF st.broken THEN [st |-> st, data |-> <<>>, err |-> ReadErr]
    ELSE Then(Min(n, Len(stream) - st.pos), LAMBDA k :
         [st   |-> [st EXCEPT !.pos = @ + k],
          data |-> SubSeq(stream, st.pos + 1, st.pos + k),
          err  |-> IF k = n THEN nil ELSE EOF])

\* ReadFull gone wrong: the source is asked for one byte more than the buffer holds
ReadFull_ReadAhead(st, n) ==
    IF n = 0 THEN [st |-> st, data |-> <<>>, err |-> nil]
    ELSE IF st.broken THEN [st |-> st, data |-> <<>>, err |-> ReadErr]
    ELSE Then(Min(n, Len(stream) - st.pos), LAMBDA k :
         [st   |-> [st EXCEPT !.pos = @ + Min(n + 1, Len(stream) - st.pos)],
          data |-> SubSeq(stream, st.pos + 1, st.pos + k),
          err  |-> IF k = n THEN nil ELSE IF k = 0 THEN EOF ELSE ErrUnexpectedEOF])

\* io.ReadFull(d.r, buf) with len(buf) = n, on a call state
\* st = [d, pos, broken, err, buf, n]: the bytes read, the error, and the
\* call state with the source advanced.  Reading zero bytes never touches
\* the source; a broken source fails every read that reaches it.
ReadFull(st, n) ==
    IF n = 0 THEN [st |-> st, data |-> <<>>, err |-> nil]
    ELSE IF st.broken THEN [st |-> st, data |-> <<>>, err |-> ReadErr]
    ELSE Then(Min(n, Len(stream) - st.pos), LAMBDA k :
         [st   |-> [st EXCEPT !.pos = @ + k],
          data |-> SubSeq(stream, st.pos + 1, st.pos + k),
          err  |-> IF k = n THEN nil ELSE IF k = 0 THEN EOF ELSE ErrUnexpectedEOF])

\* readPrefix gone wrong: a pending header is read again
readPrefix_NoPendingCheck(st) ==
    IF st.d.err # nil THEN [st EXCEPT !.err = st.d.err]
    ELSE Then(ReadFull(st, Len(st.d.prefixBuf)), LAMBDA rd :
         Then([rd.st EXCEPT !.d.prefixBuf = Filled(@, rd.data)], LAMBDA s1 :
         Then(s1.d.separator.bytes, LAMBDA sep :
            IF rd.err # nil
            THEN [s1 EXCEPT !.d.err = rd.err, !.err = rd.err]
            ELSE IF Len(sep) > 0 /\ SubSeq(s1.d.prefixBuf, 1, Len(sep)) # sep
            THEN [s1 EXCEPT !.d.err = separatorMismatchErr, !.err = separatorMismatchErr]
            ELSE [s1 EXCEPT !.d.pendingPrefix = TRUE,
                            !.d.pendingLen = Uint32(s1.d.byteOrder,
                                                    SubSeq(s1.d.prefixBuf, Len(sep) + 1, Len(s1.d.prefixBuf))),
                            !.err = nil])))

\* readPrefix gone wrong: the separator is not compared
readPrefix_NoSepCheck(st) ==
    IF st.d.err # nil THEN [st EXCEPT !.err = st.d.err]
    ELSE IF st.d.pendingPrefix THEN [st EXCEPT !.err = nil]
    ELSE Then(ReadFull(st, Len(st.d.prefixBuf)), LAMBDA rd :
         Then([rd.st EXCEPT !.d.prefixBuf = Filled(@, rd.data)], LAMBDA s1 :
         Then(s1.d.separator.bytes, LAMBDA sep :
            IF rd.err # nil
            THEN [s1 EXCEPT !.d.err = rd.err, !.err = rd.err]
            ELSE [s1 EXCEPT !.d.pendingPrefix = TRUE,
                            !.d.pendingLen = Uint32(s1.d.byteOrder,
                                                    SubSeq(s1.d.prefixBuf, Len(sep) + 1, Len(s1.d.prefixBuf))),
                            !.err = nil])))

\* Decoder.readPrefix: the call state afterwards, its result in field err
readPrefix(st) ==
    IF st.d.err # nil THEN [st EXCEPT !.err = st.d.err]
    ELSE IF st.d.pendingPrefix THEN [st EXCEPT !.err = nil]
    ELSE Then(ReadFull(st, Len(st.d.prefixBuf)), LAMBDA rd :
         Then([rd.st EXCEPT !.d.prefixBuf = Filled(@, rd.data)], LAMBDA s1 :
         Then(s1.d.separator.bytes, LAMBDA sep :
            IF rd.err # nil
            THEN [s1 EXCEPT !.d.err = rd.err, !.err = rd.err]
            ELSE IF Len(sep) > 0 /\ SubSeq(s1.d.prefixBuf, 1, Len(sep)) # sep
            THEN [s1 EXCEPT !.d.err = separatorMismatchErr, !.err = separatorMismatchErr]
            ELSE [s1 EXCEPT !.d.pendingPrefix = TRUE,
                            !.d.pendingLen = Uint32(s1.d.byteOrder,
                                                    SubSeq(s1.d.prefixBuf, Len(sep) + 1, Len(s1.d.prefixBuf))),
                            !.err = nil])))

\* DecodeInto gone wrong: io.EOF of the payload read is passed on as it is
DecodeInto_EOFPassedOn(st, b) ==
    Then(readPrefix(st), LAMBDA s1 :
       IF s1.err # nil THEN [s1 EXCEPT !.buf = b]
       ELSE IF s1.d.pendingLen < b.len
       THEN [s1 EXCEPT !.d.err = bufferNotLargeEnoughErr, !.err = bufferNotLargeEnoughErr, !.buf = b]
       ELSE IF s1.d.pendingLen > Len(b.arr)
       THEN [s1 EXCEPT !.err = Panic, !.buf = b]
       ELSE Then(ReadFull(s1, s1.d.pendingLen), LAMBDA rd :
            Then([rd.st EXCEPT !.buf = [b EXCEPT !.arr = Filled(@, rd.data)]], LAMBDA s2 :
               IF rd.err # nil
               THEN [s2 EXCEPT !.d.err = rd.err, !.err = rd.err]
               ELSE [s2 EXCEPT !.d.pendingPrefix = FALSE, !.d.pendingLen = 0, !.err = nil,
                               !.n = s1.d.pendingLen])))

\* DecodeInto gone wrong: the pending header is kept after its payload was read
DecodeInto_KeepsPending(st, b) ==
    Then(readPrefix(st), LAMBDA s1 :
       IF s1.err # nil THEN [s1 EXCEPT !.buf = b]
       ELSE IF s1.d.pendingLen < b.len
       THEN [s1 EXCEPT !.d.err = bufferNotLargeEnoughErr, !.err = bufferNotLargeEnoughErr, !.buf = b]
       ELSE IF s1.d.pendingLen > Len(b.arr)
       THEN [s1 EXCEPT !.err = Panic, !.buf = b]
       ELSE Then(ReadFull(s1, s1.d.pendingLen), LAMBDA rd :
            Then([rd.st EXCEPT !.buf = [b EXCEPT !.arr = Filled(@, rd.data)]], LAMBDA s2 :
               IF rd.err # nil
               THEN Then(IF rd.err = EOF THEN ErrUnexpectedEOF ELSE rd.err, LAMBDA err :
                         [s2 EXCEPT !.d.err = err, !.err = err])
               ELSE [s2 EXCEPT !.err = nil, !.n = s1.d.pendingLen])))

\* Decoder.DecodeInto(b): b is [arr, len], arr the backing array from b's
\* first element on (so cap(b) = Len(arr)) and len its length.  The call
\* state afterwards: its result in field err (Panic when b[:d.pendingLen]
\* is out of range), the buffer in field buf and, on success, the number of
\* payload bytes read into it in field n.
DecodeInto(st, b) ==
    Then(readPrefix(st), LAMBDA s1 :
       IF s1.err # nil THEN [s1 EXCEPT !.buf = b]
       ELSE IF s1.d.pendingLen < b.len
       THEN [s1 EXCEPT !.d.err = bufferNotLargeEnoughErr, !.err = bufferNotLargeEnoughErr, !.buf = b]
       ELSE IF s1.d.pendingLen > Len(b.arr)
       THEN [s1 EXCEPT !.err = Panic, !.buf = b]
       ELSE Then(ReadFull(s1, s1.d.pendingLen), LAMBDA rd :
            Then([rd.st EXCEPT !.buf = [b EXCEPT !.arr = Filled(@, rd.data)]], LAMBDA s2 :
               IF rd.err # nil
               THEN Then(IF rd.err = EOF THEN ErrUnexpectedEOF ELSE rd.err, LAMBDA err :
                         [s2 EXCEPT !.d.err = err, !.err = err])
               ELSE [s2 EXCEPT !.d.pendingPrefix = FALSE, !.d.pendingLen = 0, !.err = nil,
                               !.n = s1.d.pendingLen])))

\* make([]byte, n)
MakeBuf(n) == [arr |-> Run(0, n), len |-> n]

\* a nil []byte
NilBuf == [arr |-> <<>>, len |-> 0]

\* Decoder.Decode: the call state afterwards, the returned slice in field buf
Decode(st) ==
    Then(readPrefix(st), LAMBDA s1 :
       IF s1.err # nil THEN [s1 EXCEPT !.buf = NilBuf]
       ELSE Then(DecodeInto(s1, MakeBuf(s1.d.pendingLen)), LAMBDA s2 :
            IF s2.err # nil THEN [s2 EXCEPT !.buf = NilBuf] ELSE s2))

\* NextLen gone wrong: the header it read is not kept pending
NextLen_DropsHeader(st) ==
    IF st.d.err # nil THEN [st EXCEPT !.err = st.d.err, !.n = 0]
    ELSE Then(IF ~st.d.pendingPrefix THEN readPrefix(st) ELSE [st EXCEPT !.err = nil], LAMBDA s1 :
         IF s1.err # nil THEN [s1 EXCEPT !.n = 0]
         ELSE [s1 EXCEPT !.n = s1.d.pendingLen, !.d.pendingPrefix = FALSE])

\* NextLen gone wrong: the stored error is not looked at first
NextLen_NoErrCheck(st) ==
    Then(IF ~st.d.pendingPrefix THEN readPrefix(st) ELSE [st EXCEPT !.err = nil], LAMBDA s1 :
         IF s1.err # nil THEN [s1 EXCEPT !.n = 0]
         ELSE [s1 EXCEPT !.n = s1.d.pendingLen])

\* Decoder.NextLen: the call state afterwards, the returned length in field n
NextLen(st) ==
    IF st.d.err # nil THEN [st EXCEPT !.err = st.d.err, !.n = 0]
    ELSE Then(IF ~st.d.pendingPrefix THEN readPrefix(st) ELSE [st EXCEPT !.err = nil], LAMBDA s1 :
         IF s1.err # nil THEN [s1 EXCEPT !.n = 0]
         ELSE [s1 EXCEPT !.n = s1.d.pendingLen])

\* the state a Decoder call starts in
DecodeState(broken) ==
    [d |-> dec, pos |-> pos, broken |-> broken, err |-> nil, buf |-> NilBuf, n |-> 0]

\* b[:n] of a buffer
Prefix(b, n) == SubSeq(b.arr, 1, n)

----------------------------------------------------------------------------
(* The state machine *)

\* no options given
NoOpts == [sep |-> [given |-> FALSE, s |-> NilSlice], endian |-> [given |-> FALSE, o |-> BigEndian]]

\* The Encoder is built with any option list; the Decoder with the same
\* list, or with none.
Init ==
    /\ \E eopts \in OptLists :
          /\ enc = NewEncoder(eopts)
          /\ \E dopts \in {eopts, NoOpts} : dec = NewDecoder(dopts)
    /\ w = <<>>
    /\ stream = <<>>
    /\ pos = 0
    /\ eRet = [err |-> nil, log |-> <<>>]
    /\ dRet = [op |-> "none", err |-> nil, buf |-> <<>>, n |-> 0]
    /\ sent = <<>>
    /\ got = <<>>

\* enc.Encode(msg), with the sink failing the failAt-th write of the call
EncodeCall(msg, failAt, part) ==
    /\ Len(w) < MaxSink \/ enc.err # nil
    /\ \E r \in {Encode(EncodeState(failAt, part), msg)} :
          /\ enc' = r.e
          /\ w' = r.sink
          /\ stream' = stream \o SubSeq(r.sink, Len(w) + 1, Len(r.sink))
          /\ eRet' = [err |-> r.e.err, log |-> r.log]
          /\ sent' = IF r.e.err = nil THEN Append(sent, msg) ELSE sent
    /\ UNCHANGED <<dec, pos, dRet, got>>

\* dec.Decode()
DecodeCall(broken) ==
    /\ \E r \in {Decode(DecodeState(broken))} :
          /\ dec' = r.d
          /\ pos' = r.pos
          /\ dRet' = [op |-> "Decode", err |-> r.err, buf |-> Prefix(r.buf, r.buf.len), n |-> 0]
          /\ got' = IF r.err = nil THEN Append(got, Prefix(r.buf, r.buf.len)) ELSE got
    /\ UNCHANGED <<enc, w, stream, eRet, sent>>

\* dec.DecodeInto(b) for a buffer b of length blen and capacity bcap, filled with 1s
DecodeIntoCall(blen, bcap, broken) ==
    /\ \E r \in {DecodeInto(DecodeState(broken), [arr |-> Run(1, bcap), len |-> blen])} :
          /\ dec' = r.d
          /\ pos' = r.pos
          /\ dRet' = [op |-> "DecodeInto", err |-> r.err, buf |-> r.buf.arr, n |-> 0]
          /\ got' = IF r.err = nil THEN Append(got, Prefix(r.buf, r.n)) ELSE got
    /\ UNCHANGED <<enc, w, stream, eRet, sent>>

\* dec.NextLen()
NextLenCall(broken) ==
    /\ \E r \in {NextLen(DecodeState(broken))} :
          /\ dec' = r.d
          /\ pos' = r.pos
          /\ dRet' = [op |-> "NextLen", err |-> r.err, buf |-> <<>>, n |-> r.n]
    /\ UNCHANGED <<enc, w, stream, eRet, sent, got>>

\* which write of an Encode call the sink fails (0: none) and how many bytes
\* of it the sink takes first
SinkFaults == {<<0, 0>>} \cup ((1 .. 3) \X Partials)

Next ==
    \/ \E msg \in Payloads, f \in SinkFaults : EncodeCall(msg, f[1], f[2])
    \/ \E broken \in BOOLEAN : DecodeCall(broken)
    \/ \E blen \in 0 .. MaxBuf, extra \in 0 .. 1, broken \in BOOLEAN : DecodeIntoCall(blen, blen + extra, broken)
    \/ \E broken \in BOOLEAN : NextLenCall(broken)

Spec == Init /\ [][Next]_vars

----------------------------------------------------------------------------
(* Decoding a given byte stream *)

\* the payload sequences the given streams are made of
StreamMsgs ==
    {<<>>,
     << <<>> >>,
     << <<0, 1>> >>,
     << <<1>>, <<>> >>,
     << <<0, 1>>, <<1>> >>,
     << <<>>, <<1>>, <<0, 1>> >>}

\* Encode called for each of the payloads ms in turn, on a sink that takes every write
RECURSIVE EncodeAll(_, _)
EncodeAll(st, ms) ==
    IF ms = <<>> THEN st
    ELSE Then(Encode(st, Head(ms)), LAMBDA s1 : EncodeAll([s1 EXCEPT !.log = <<>>], Tail(ms)))

\* byte strings of up to a length field and two bytes, as they come
RawStreams == UNION {[1 .. n -> Byte] : n \in 0 .. (LenWidth + 2)}

\* The source holds from the start the first `cut` bytes of what an Encoder
\* wrote for some payloads, or bytes that no Encoder wrote, and no byte is
\* added later; the Decoder is built with the Encoder's option list, or with
\* none.
StreamInit ==
    /\ \E eopts \in OptLists :
          /\ \E dopts \in {eopts, NoOpts} : dec = NewDecoder(dopts)
          /\ \/ \E ms \in StreamMsgs :
                   \E r \in {EncodeAll([e |-> NewEncoder(eopts), sink |-> <<>>, log |-> <<>>,
                                         failAt |-> 0, part |-> 0], ms)} :
                      /\ enc = r.e
                      /\ w = r.sink
                      /\ sent = ms
                      /\ \E cut \in 0 .. Len(r.sink) : stream = SubSeq(r.sink, 1, cut)
             \/ /\ enc = NewEncoder(eopts)
                /\ w = <<>>
                /\ sent = <<>>
                /\ stream \in RawStreams
    /\ pos = 0
    /\ eRet = [err |-> nil, log |-> <<>>]
    /\ dRet = [op |-> "none", err |-> nil, buf |-> <<>>, n |-> 0]
    /\ got = <<>>

\* Decode() and NextLen() calls in any order
StreamNext ==
    \/ DecodeCall(FALSE)
    \/ NextLenCall(FALSE)

StreamSpec == StreamInit /\ [][StreamNext]_vars

\* for { msg, err := dec.Decode(); if err != nil { break }; ... }
DecodeLoop ==
    /\ dRet.err = nil
    /\ DecodeCall(FALSE)

\* the loop runs as long as it can
LoopSpec == StreamInit /\ [][DecodeLoop]_vars /\ WF_vars(DecodeLoop)

----------------------------------------------------------------------------
(* Vocabulary of the properties *)

\* the Encoder and the Decoder were built with the same configuration
SameConfig ==
    /\ enc.separator = dec.separator
    /\ enc.byteOrder = dec.byteOrder

\* the value of four bytes read as an unsigned integer, most significant
\* byte first (big-endian) or last (little-endian)
RECURSIVE ValueOf(_)
ValueOf(b) == IF b = <<>> THEN 0 ELSE ValueOf(SubSeq(b, 1, Len(b) - 1)) * ByteBase + b[Len(b)]

Reverse(b) == [i \in 1 .. Len(b) |-> b[Len(b) + 1 - i]]

\* the 4-byte unsigned integer n in the given byte order
LengthField(byteOrder, n) ==
    CHOOSE b \in [1 .. LenWidth -> Byte] :
        ValueOf(IF byteOrder = BigEndian THEN b ELSE Reverse(b)) = n

\* one frame on the wire
Frame(separator, byteOrder, m) ==
    (IF separator.isNil THEN <<>> ELSE separator.bytes) \o LengthField(byteOrder, Len(m)) \o m

\* the frames of the payloads ms, one after the other
RECURSIVE Frames(_, _, _)
Frames(separator, byteOrder, ms) ==
    IF ms = <<>> THEN <<>>
    ELSE Frame(separator, byteOrder, Head(ms)) \o Frames(separator, byteOrder, Tail(ms))

\* a is an initial part of b
IsPrefix(a, b) == Len(a) <= Len(b) /\ \A i \in 1 .. Len(a) : a[i] = b[i]

\* the bytes of the source not yet handed out
Remaining == Len(stream) - pos

\* the size of a frame header as the Decoder is configured
HeaderLen == Len(dec.separator.bytes) + LenWidth

\* the length declared by the header that starts at the source's position
DeclaredLen ==
    LET field == SubSeq(stream, pos + Len(dec.separator.bytes) + 1, pos + HeaderLen)
    IN ValueOf(IF dec.byteOrder = BigEndian THEN field ELSE Reverse(field))

\* the step is a Decode() on a working source
DecodeStep == dRet'.op = "Decode" /\ DecodeCall(FALSE)

\* the step is a NextLen(), on a working or a broken source
NextLenStep(broken) == dRet'.op = "NextLen" /\ NextLenCall(broken)

\* the step is a DecodeInto call on a working source, with a buffer of length at least n
DecodeIntoAtLeast(n) ==
    /\ dRet'.op = "DecodeInto"
    /\ \E blen \in n .. MaxBuf, extra \in 0 .. 1 : DecodeIntoCall(blen, blen + extra, FALSE)

----------------------------------------------------------------------------
(* C1: round trip.  With the Encoder and the Decoder configured alike       *)
(* (separator present or absent, big- or little-endian), one payload m      *)
(* encoded by a fresh Encoder into the empty sink and then decoded by the   *)
(* first call of a fresh Decoder comes back as exactly m, with no error.    *)
C1_RoundTrip ==
    [][(/\ dRet.op = "none"
        /\ Len(sent) = 1
        /\ enc.err = nil
        /\ SameConfig
        /\ DecodeStep)
       => (dRet'.err = nil /\ dRet'.buf = sent[1])]_vars

\* a payload of the largest length, little-endian with a separator, has made the round trip
C1_Witness ==
    /\ dRet.op = "Decode" /\ dRet.err = nil
    /\ Len(sent) = 1 /\ got = sent
    /\ Len(sent[1]) = MaxUint32
    /\ dRet.buf = sent[1]
    /\ ~enc.separator.isNil /\ enc.byteOrder = LittleEndian
    /\ SameConfig

(* C2: sequencing.  With the same configuration on both sides and a        *)
(* Decoder that has not failed, the payloads delivered so far are the       *)
(* first of the encoded ones, each Decode() returns the next payload in     *)
(* the order the payloads were encoded, and once every encoded payload has  *)
(* been returned the next Decode() returns io.EOF.  (An Encode call that    *)
(* failed may have left bytes of its own in the pipe; they follow every     *)
(* encoded frame.)                                                          *)
C2_Sequencing ==
    [][(/\ dec.err = nil
        /\ SameConfig
        /\ DecodeStep)
       => /\ enc.err = nil => IsPrefix(got, sent)
          /\ IsPrefix(got, sent) =>
                IF Len(got) < Len(sent)
                THEN /\ dRet'.err = nil
                     /\ dRet'.buf = sent[Len(got) + 1]
                     /\ got' = Append(got, sent[Len(got) + 1])
                ELSE enc.err = nil => (dRet'.err = EOF /\ dRet'.buf = <<>> /\ got' = got)]_vars

\* two different payloads were decoded in order and the third Decode() returned io.EOF
C2_Witness ==
    /\ dRet.op = "Decode" /\ dRet.err = EOF
    /\ Len(sent) = 2 /\ got = sent
    /\ sent[1] # sent[2]
    /\ enc.err = nil
    /\ SameConfig

(* C3: wire format.  While no Encode call has failed, the sink holds       *)
(* exactly the frames of the encoded payloads, in order: for each one the   *)
(* separator (nothing when it is absent), the payload's length as a 4-byte  *)
(* unsigned integer in the configured byte order, and the payload.          *)
C3_WireFormat ==
    enc.err = nil => w = Frames(enc.separator, enc.byteOrder, sent)

\* two payloads of equal length were encoded without separator, big-endian
C3_Witness ==
    /\ enc.err = nil
    /\ Len(sent) = 2
    /\ sent[1] = <<0, 1>> /\ sent[2] = <<0, 1>>
    /\ enc.separator.isNil /\ enc.byteOrder = BigEndian
    /\ w = <<0, 0, 1, 0, 0, 1, 0, 0, 1, 0, 0, 1>>

(* C4: NextLen.  A NextLen() that reads a header returns the length that   *)
(* header declares and takes the header's bytes only; a NextLen() that      *)
(* follows a successful NextLen() returns the same length and takes no      *)
(* byte from the source, even a broken one; and the Decode() that follows a *)
(* successful NextLen() returns the whole payload, the next n bytes.        *)
C4_NextLen ==
    [][/\ \A broken \in BOOLEAN :
            NextLenStep(broken) =>
              /\ (dec.err = nil /\ ~dec.pendingPrefix /\ dRet'.err = nil)
                    => (dRet'.n = DeclaredLen /\ pos' = pos + HeaderLen)
              /\ (dRet.op = "NextLen" /\ dRet.err = nil)
                    => (dRet'.err = nil /\ dRet'.n = dRet.n /\ pos' = pos)
       /\ (dRet.op = "NextLen" /\ dRet.err = nil /\ Remaining >= dRet.n /\ DecodeStep)
            => /\ dRet'.err = nil
               /\ dRet'.buf = SubSeq(stream, pos + 1, pos + dRet.n)
               /\ pos' = pos + dRet.n]_vars

\* NextLen() has returned 2 for the encoded payload <<0, 1>>, all of which is still in the source
C4_Witness ==
    /\ dRet.op = "NextLen" /\ dRet.err = nil /\ dRet.n = 2
    /\ dec.pendingPrefix
    /\ sent = << <<0, 1>> >> /\ got = <<>>
    /\ SubSeq(stream, pos + 1, pos + 2) = <<0, 1>>
    /\ SameConfig

\* the first call of a fresh Decoder that expects the default separator is
\* a Decode(), on the stream of one payload encoded without separator
MismatchedFirstDecode ==
    /\ dRet.op = "none"
    /\ Len(sent) = 1
    /\ enc.err = nil
    /\ enc.separator.isNil
    /\ dec.separator = defaultSeparator
    /\ DecodeStep

(* C5 as claimed: for every payload, a stream encoded without separator    *)
(* makes the first Decode() of a Decoder with the default separator fail    *)
(* with the separator-mismatch error.                                       *)
C5_AlwaysMismatch ==
    [][MismatchedFirstDecode => (dRet'.err = separatorMismatchErr /\ dRet'.buf = <<>>)]_vars

(* C5, amended: the first Decode() returns the separator-mismatch error    *)
(* for every payload at least as long as the separator whose length field   *)
(* and first bytes do not spell the separator; for a payload shorter than   *)
(* the separator the stream is shorter than one header and Decode() returns *)
(* io.ErrUnexpectedEOF.  Neither returns a payload.                         *)
C5_Mismatch ==
    [][MismatchedFirstDecode =>
         LET m      == sent[1]
             sep    == dec.separator.bytes
             spells == SubSeq(LengthField(enc.byteOrder, Len(m)) \o m, 1, Len(sep)) = sep
         IN /\ dRet'.buf = <<>> \/ spells
            /\ Len(m) < Len(sep) => dRet'.err = ErrUnexpectedEOF
            /\ (Len(m) >= Len(sep) /\ ~spells) => dRet'.err = separatorMismatchErr]_vars

\* Decode() has returned the separator-mismatch error on a stream encoded without separator
C5_Witness ==
    /\ dRet.op = "Decode" /\ dRet.err = separatorMismatchErr
    /\ Len(sent) = 1 /\ Len(sent[1]) >= LenWidth
    /\ enc.err = nil /\ enc.separator.isNil
    /\ dec.separator = defaultSeparator
    /\ pos = HeaderLen

(* C6 as claimed: with a header declaring length L read and fewer than L   *)
(* bytes left in the source, Decode() and DecodeInto(b), for a buffer of    *)
(* at least L bytes, fail with io.ErrUnexpectedEOF.                         *)
C6_Truncation ==
    [][(/\ dec.err = nil
        /\ dec.pendingPrefix
        /\ Remaining < dec.pendingLen
        /\ (DecodeStep \/ DecodeIntoAtLeast(dec.pendingLen)))
       => dRet'.err = ErrUnexpectedEOF]_vars

(* C7: end of stream at a header.  When a call on a Decoder that has not   *)
(* failed and holds no pending header reads a header from a working         *)
(* source, it returns io.EOF exactly when the source has no byte left, and  *)
(* io.ErrUnexpectedEOF, a different error, when the source has at least one *)
(* byte but less than a header.                                             *)
C7_HeaderEOF ==
    [][(/\ dec.err = nil
        /\ ~dec.pendingPrefix
        /\ (DecodeStep \/ NextLenStep(FALSE) \/ DecodeIntoAtLeast(0)))
       => /\ dRet'.err = EOF <=> Remaining = 0
          /\ (0 < Remaining /\ Remaining < HeaderLen) => dRet'.err = ErrUnexpectedEOF
          /\ EOF # ErrUnexpectedEOF]_vars

\* a call has returned io.ErrUnexpectedEOF on a source that held part of a header
C7_Witness ==
    /\ dRet.err = ErrUnexpectedEOF
    /\ ~dec.pendingPrefix
    /\ pos > 0 /\ pos < HeaderLen /\ pos = Len(stream)

(* C8: Encoder poisoning.  Once an Encode call has returned an error,      *)
(* every later Encode call returns that error, issues no write and leaves   *)
(* the sink as it is.                                                       *)
C8_EncoderPoisoned ==
    [][eRet.err # nil =>
         /\ eRet'.err = eRet.err
         /\ eRet' = eRet \/ eRet'.log = <<>>
         /\ w' = w
         /\ stream' = stream]_vars

\* after an Encode call failed on a write, a later call has returned the same error without writing
C8_Witness ==
    /\ eRet.err = WriteErr /\ eRet.log = <<>>
    /\ enc.err = WriteErr
    /\ Len(sent) = 1

\* the payloads at the edges of the length field
EdgePayloads == {m \in Payloads : Len(m) >= MaxUint32}

(* C9: oversized payload.  Encode of a payload longer than the length      *)
(* field can hold returns the message-too-long error, writes nothing, and   *)
(* poisons the Encoder: every later Encode returns that error.  A payload   *)
(* of exactly the largest length is encoded.                                *)
C9_Oversized ==
    [][/\ enc.err = nil =>
            \A msg \in EdgePayloads, f \in SinkFaults :
               EncodeCall(msg, f[1], f[2]) =>
                 /\ Len(msg) > MaxUint32 =>
                       /\ eRet'.err = messageTooLongErr /\ enc'.err = messageTooLongErr
                       /\ eRet'.log = <<>> /\ w' = w /\ sent' = sent
                 /\ (Len(msg) = MaxUint32 /\ f[1] = 0) =>
                       (eRet'.err = nil /\ sent' = Append(sent, msg))
       /\ eRet.err = messageTooLongErr =>
            (eRet'.err = messageTooLongErr /\ w' = w)]_vars

\* after one payload was encoded, an oversized one has been rejected and nothing more was written
C9_Witness ==
    /\ eRet.err = messageTooLongErr /\ enc.err = messageTooLongErr
    /\ Len(sent) = 1
    /\ w = Frames(enc.separator, enc.byteOrder, sent)

(* C10: Decoder poisoning.  Once a Decoder call has returned an error      *)
(* other than io.EOF, every later call of Decode, DecodeInto or NextLen     *)
(* returns that error, takes no byte from the source and leaves the         *)
(* Decoder as it is.                                                        *)
C10_DecoderPoisoned ==
    [][dRet.err \notin {nil, EOF, Panic} =>
         /\ dRet'.err = dRet.err
         /\ pos' = pos
         /\ dec' = dec]_vars

\* NextLen() has returned the error an earlier DecodeInto failed with
C10_Witness ==
    /\ dRet.op = "NextLen" /\ dRet.err = bufferNotLargeEnoughErr
    /\ dec.err = bufferNotLargeEnoughErr
    /\ dec.pendingPrefix

----------------------------------------------------------------------------
(* Vocabulary of the DecodeInto properties *)

\* the Decoder has not failed and a header is pending or a whole header with
\* the Decoder's separator lies ahead in the source
HeaderAhead ==
    /\ dec.err = nil
    /\ \/ dec.pendingPrefix
       \/ /\ Remaining >= HeaderLen
          /\ SubSeq(stream, pos + 1, pos + Len(dec.separator.bytes)) = dec.separator.bytes

\* the payload length the next frame declares
NextFrameLen == IF dec.pendingPrefix THEN dec.pendingLen ELSE DeclaredLen

\* where in the source the payload of the next frame starts
PayloadStart == IF dec.pendingPrefix THEN pos ELSE pos + HeaderLen

\* the next frame lies whole in the source
FrameAhead == HeaderAhead /\ Len(stream) - PayloadStart >= NextFrameLen

(* C11 as claimed: DecodeInto(b) with len(b) greater than the length L the *)
(* next frame declares succeeds, puts the payload into b[0..L), leaves the  *)
(* rest of b as it was, clears the pending header and does not poison the   *)
(* Decoder.                                                                 *)
C11_OversizedBuffer ==
    [][\A blen \in 0 .. MaxBuf, extra \in 0 .. 1 :
          (/\ FrameAhead
           /\ blen > NextFrameLen
           /\ dRet'.op = "DecodeInto"
           /\ DecodeIntoCall(blen, blen + extra, FALSE))
          => /\ dRet'.err = nil
             /\ dRet'.buf = SubSeq(stream, PayloadStart + 1, PayloadStart + NextFrameLen)
                               \o Run(1, blen + extra - NextFrameLen)
             /\ ~dec'.pendingPrefix
             /\ dec'.err = nil]_vars

(* C12 as claimed: DecodeInto(b) with len(b) less than the length L the    *)
(* next frame declares returns the buffer-size error as a value, takes no   *)
(* payload byte from the source and poisons the Decoder with that error.    *)
C12_TooSmallBuffer ==
    [][\A blen \in 0 .. MaxBuf, extra \in 0 .. 1 :
          (/\ HeaderAhead
           /\ blen < NextFrameLen
           /\ dRet'.op = "DecodeInto"
           /\ DecodeIntoCall(blen, blen + extra, FALSE))
          => /\ dRet'.err = bufferNotLargeEnoughErr
             /\ dec'.err = bufferNotLargeEnoughErr
             /\ pos' = PayloadStart]_vars

(* C13 as claimed: a Decode() or NextLen() that returned io.EOF leaves the *)
(* Decoder usable: once the source holds the next encoded frame, Decode()   *)
(* returns its payload.                                                     *)
C13_EOFNotLatched ==
    [][(/\ dRet.op \in {"Decode", "NextLen"}
        /\ dRet.err = EOF
        /\ SameConfig
        /\ enc.err = nil
        /\ IsPrefix(got, sent) /\ Len(got) < Len(sent)
        /\ DecodeStep)
       => (dRet'.err = nil /\ dRet'.buf = sent[Len(got) + 1])]_vars

----------------------------------------------------------------------------
(* Vocabulary of the write properties *)

\* the writes of one frame, in order: the separator when one is configured,
\* the length field, the payload
FrameWrites(e, m) ==
    (IF e.separator.isNil THEN <<>> ELSE <<e.separator.bytes>>)
        \o <<LengthField(e.byteOrder, Len(m)), m>>

\* the bytes of a sequence of writes, one after the other
RECURSIVE Flatten(_)
Flatten(bs) == IF bs = <<>> THEN <<>> ELSE Head(bs) \o Flatten(Tail(bs))

\* the step may be an Encode call: something of the Encoder's side has changed
EncoderMoved == eRet' # eRet \/ enc' # enc \/ w' # w \/ sent' # sent

(* C14: write failure in a frame.  When the sink fails the k-th write of   *)
(* an Encode call (separator, length or payload), the call returns the      *)
(* sink's error, issues no write after the k-th, leaves in the sink the     *)
(* earlier writes of the frame and what the sink took of the k-th, and the  *)
(* Encoder is poisoned with that error.                                     *)
C14_WriteFailure ==
    [][\A msg \in Payloads, f \in SinkFaults :
          (/\ enc.err = nil
           /\ EncoderMoved
           /\ Len(msg) <= MaxUint32
           /\ f[1] \in 1 .. (IF enc.separator.isNil THEN 2 ELSE 3)
           /\ EncodeCall(msg, f[1], f[2]))
          => \A ws \in {FrameWrites(enc, msg)} :
                /\ eRet'.err = WriteErr
                /\ enc'.err = WriteErr
                /\ eRet'.log = SubSeq(ws, 1, f[1])
                /\ w' = w \o Flatten(SubSeq(ws, 1, f[1] - 1))
                          \o SubSeq(ws[f[1]], 1, Min(f[2], Len(ws[f[1]])))
                /\ sent' = sent]_vars

\* the sink failed the length write after one byte: the separator and that byte stay in the sink
C14_Witness ==
    /\ eRet.err = WriteErr /\ enc.err = WriteErr
    /\ Len(eRet.log) = 2
    /\ ~enc.separator.isNil
    /\ w = enc.separator.bytes \o SubSeq(eRet.log[2], 1, 1)
    /\ sent = <<>>

(* C15: writes per frame.  A successful Encode call issues, during the     *)
(* call and in this order, one write of the separator when a separator is   *)
(* configured, one of the 4-byte length and one of the payload: three       *)
(* writes with a separator, two without; and all their bytes are in the     *)
(* sink when the call returns.                                              *)
C15_WritesPerFrame ==
    [][\A msg \in Payloads :
          (/\ enc.err = nil
           /\ EncoderMoved
           /\ eRet'.err = nil
           /\ EncodeCall(msg, 0, 0))
          => /\ eRet'.log = FrameWrites(enc, msg)
             /\ Len(eRet'.log) = IF enc.separator.isNil THEN 2 ELSE 3
             /\ w' = w \o Flatten(eRet'.log)]_vars

\* an Encode call with a separator has issued three writes, the last one the payload <<0, 1>>
C15_Witness ==
    /\ eRet.err = nil
    /\ Len(eRet.log) = 3
    /\ eRet.log[1] = enc.separator.bytes /\ eRet.log[3] = <<0, 1>>
    /\ Len(sent) = 1
    /\ w = Flatten(eRet.log)

----------------------------------------------------------------------------
(* Vocabulary of the Decoder's state machine *)

\* the state of a Decoder d: Poisoned once an error is stored (every entry
\* point then returns it), else by whether a header is pending
DecoderState(d) ==
    IF d.err # nil THEN "Poisoned"
    ELSE IF d.pendingPrefix THEN "PendingHeader"
    ELSE "NoPendingHeader"

\* the errors of an I/O or integrity failure, and of a rejected buffer
Failures == {ReadErr, ErrUnexpectedEOF, separatorMismatchErr, bufferNotLargeEnoughErr}

(* C16 as claimed: the Decoder moves only from NoPendingHeader to          *)
(* PendingHeader, from PendingHeader to NoPendingHeader by a successful     *)
(* Decode or DecodeInto, and from either to Poisoned by a call that fails   *)
(* with an I/O or integrity failure (clean end-of-stream is none);          *)
(* Poisoned is never left; a successful Decode or DecodeInto ends in        *)
(* NoPendingHeader and a successful NextLen in PendingHeader.               *)
C16_StateMachine ==
    [][/\ DecoderState(dec) = "Poisoned" => DecoderState(dec') = "Poisoned"
       /\ DecoderState(dec') # DecoderState(dec) =>
             \/ /\ DecoderState(dec) = "NoPendingHeader"
                /\ DecoderState(dec') = "PendingHeader"
             \/ /\ DecoderState(dec) = "PendingHeader"
                /\ DecoderState(dec') = "NoPendingHeader"
                /\ dRet'.op \in {"Decode", "DecodeInto"} /\ dRet'.err = nil
             \/ /\ DecoderState(dec') = "Poisoned"
                /\ dRet'.err \in Failures
       /\ (dRet'.err = nil /\ (DecodeStep \/ DecodeIntoAtLeast(0)))
             => DecoderState(dec') = "NoPendingHeader"
       /\ (dRet'.err = nil /\ NextLenStep(FALSE))
             => DecoderState(dec') = "PendingHeader"]_vars

(* C17: no read-ahead.  While the Decoder has not failed, the bytes it has *)
(* taken from the source are the header and the payload of every frame it   *)
(* has delivered, plus one header when a header is pending, and no more.    *)
C17_NoReadAhead ==
    dec.err = nil =>
        pos = Len(got) * HeaderLen + Len(Flatten(got))
                + (IF dec.pendingPrefix THEN HeaderLen ELSE 0)

\* one frame was delivered and the header of the next is pending, its payload still in the source
C17_Witness ==
    /\ dec.err = nil /\ dec.pendingPrefix
    /\ got = << <<0, 1>> >>
    /\ pos = 2 * HeaderLen + 2
    /\ Remaining > 0

----------------------------------------------------------------------------
(* Vocabulary of the properties of decoding a given stream *)

\* the Decoder as NewDecoder built it
Fresh(d) ==
    [d EXCEPT !.prefixBuf = Run(0, Len(@)), !.err = nil,
              !.pendingPrefix = FALSE, !.pendingLen = 0]

\* the k-th of k successive Decode() calls of a fresh Decoder on the stream
RECURSIVE RefRun(_)
RefRun(k) ==
    IF k = 0
    THEN [d |-> Fresh(dec), pos |-> 0, broken |-> FALSE, err |-> nil, buf |-> NilBuf, n |-> 0]
    ELSE Then(RefRun(k - 1), LAMBDA st : Decode([st EXCEPT !.err = nil, !.buf = NilBuf, !.n = 0]))

(* C18: NextLen transparency.  On a given stream, with NextLen() calls put *)
(* anywhere between the Decode() calls, every Decode() returns the payload  *)
(* and the error that the Decode() call of the same rank returns when a     *)
(* fresh Decoder of the same configuration makes Decode() calls only.       *)
(* (Ranks: the Decode() calls that succeeded are Len(got) many; once one    *)
(* has failed, the Decode-only run repeats its result at every later rank.) *)
C18_NextLenTransparent ==
    [][DecodeStep =>
         \A ref \in {RefRun(Len(got) + 1)} :
            /\ dRet'.err = ref.err
            /\ dRet'.buf = Prefix(ref.buf, ref.buf.len)
            /\ ref.err # nil =>
                  \A again \in {Decode([ref EXCEPT !.err = nil, !.buf = NilBuf, !.n = 0])} :
                     /\ again.err = ref.err
                     /\ again.buf = ref.buf
                     /\ again.d = ref.d
                     /\ again.pos = ref.pos]_vars

\* after the first payload was decoded, a NextLen() has read the header of the second
C18_Witness ==
    /\ dRet.op = "NextLen" /\ dRet.err = nil
    /\ dec.pendingPrefix
    /\ Len(sent) = 2 /\ got = << sent[1] >>
    /\ dRet.n = Len(sent[2])
    /\ Remaining = Len(sent[2])

\* s is a whole number of frames as the Decoder is configured
RECURSIVE WholeFrames(_)
WholeFrames(s) ==
    \/ s = <<>>
    \/ /\ Len(s) >= HeaderLen
       /\ SubSeq(s, 1, Len(dec.separator.bytes)) = dec.separator.bytes
       /\ \E field \in {SubSeq(s, Len(dec.separator.bytes) + 1, HeaderLen)} :
          \E l \in {ValueOf(IF dec.byteOrder = BigEndian THEN field ELSE Reverse(field))} :
             /\ Len(s) >= HeaderLen + l
             /\ WholeFrames(SubSeq(s, HeaderLen + l + 1, Len(s)))

\* the loop has ended: its last Decode() returned an error
LoopStopped == dRet.op = "Decode" /\ dRet.err # nil

(* C19: the decode loop ends.  On a given stream a loop of Decode() calls  *)
(* reaches a Decode() that returns an error, and that error is io.EOF       *)
(* exactly when the stream is a whole number of frames.                     *)
C19_LoopTerminates ==
    /\ <>LoopStopped
    /\ [](LoopStopped => (dRet.err = EOF <=> WholeFrames(stream)))

\* the loop has decoded three frames and ended with io.EOF
C19_Witness ==
    /\ LoopStopped /\ dRet.err = EOF
    /\ Len(got) = 3 /\ got = sent
    /\ pos = Len(stream)

====
